---- MODULE Spec2Model ----
(***************************************************************************)
(* A model of genius_c's UTF-8 codec (src/src/utf8.h).                     *)
(*                                                                         *)
(* An octet is modelled by its bit pattern 0..255 (the masks of the code   *)
(* are all below 0x100, so the result of `byte & mask` after integral      *)
(* promotion is the same for a signed and an unsigned char).  A cursor is  *)
(* an offset 0..Len(str) into the byte string; offset i designates         *)
(* str[i+1].  A uint32_t is a record [top, low]: bit 31 and the low 31     *)
(* bits, since the model checker's integers stop at 2^31-1.                *)
(***************************************************************************)
EXTENDS Integers, Sequences, FiniteSets, TLC

VARIABLES
    pc,         \* position of the modelled caller
    byte,       \* argument of the classifier and the two byte predicates
    seqLength,  \* results of the classifier and the predicates on `byte`
    codePoint,  \* the uint32_t handed to put_utf8_char
    str,        \* the byte string (decoder input / encoder destination)
    it,         \* the read cursor into str
    output,     \* convertUtf8ToWString's local `output`
    result,     \* what convertUtf8ToWString returned (NoResult: nothing)
    last,       \* the last getUtf8Character call: entry cursor and outcome
    reads,      \* offsets of str dereferenced so far
    calls,      \* number of getUtf8Character calls made so far
    wcharBits,  \* width of wchar_t in this build
    utf8        \* what convertWStringToUtf8 returned for `result`

vars == <<pc, byte, seqLength, codePoint, str, it, output, result, last,
          reads, calls, wcharBits, utf8>>

-----------------------------------------------------------------------------
(* Bit operations of the code, on naturals.                                *)

RECURSIVE BitAnd(_, _)
BitAnd(a, b) ==
    IF a = 0 \/ b = 0 THEN 0
    ELSE (a % 2) * (b % 2) + 2 * BitAnd(a \div 2, b \div 2)

RECURSIVE BitOr(_, _)
BitOr(a, b) ==
    IF a = 0 THEN b
    ELSE IF b = 0 THEN a
    ELSE (IF a % 2 = 1 \/ b % 2 = 1 THEN 1 ELSE 0)
         + 2 * BitOr(a \div 2, b \div 2)

\* x << s on uint32_t.  Every shift of the decoder moves at most 6 bits by
\* at most 30 places (1 bit by 30, 6 bits by 24), so no bit leaves the word.
Shl(x, s) == x * (2 ^ s)

\* Conversion of an int/unsigned to an octet on assignment to *octetIterator.
ToOctet(x) == x % 256

-----------------------------------------------------------------------------
(* Sequence-length classifier and the byte predicates.                     *)

\* Variant: the 6-byte test written with the mask 0xfc.
getUtf8SequenceLengthLate6(b) ==
    IF BitAnd(b, 128) = 0 THEN 1
    ELSE IF BitAnd(b, 224) = 192 THEN 2
    ELSE IF BitAnd(b, 240) = 224 THEN 3
    ELSE IF BitAnd(b, 248) = 240 THEN 4
    ELSE IF BitAnd(b, 252) = 248 THEN 5
    ELSE IF BitAnd(b, 252) = 252 THEN 6
    ELSE 0

getUtf8SequenceLength(b) ==
    IF BitAnd(b, 128) = 0 THEN 1
    ELSE IF BitAnd(b, 224) = 192 THEN 2
    ELSE IF BitAnd(b, 240) = 224 THEN 3
    ELSE IF BitAnd(b, 248) = 240 THEN 4
    ELSE IF BitAnd(b, 252) = 248 THEN 5
    ELSE IF BitAnd(b, 254) = 252 THEN 6
    ELSE 0

isValidUtf8LeadByte(b) == getUtf8SequenceLength(b) # 0

isValidUtf8TrailByte(b) == BitAnd(b, 192) = 128

-----------------------------------------------------------------------------
(* Decoder.                                                                *)

\* The three messages getUtf8Character throws with, and the two outcomes
\* that are not exceptions.
TruncatedSequence == "utf8 sequence too short. Expected more bytes"
InvalidTrailByte  == "invalid trailing byte for utf8 sequence"
InvalidLeadByte   == "invalid leading byte for utf8 sequence"
NoError           == "returned"
Undefined         == "undefined behaviour"

\* *octetIterator / octetIterator[x]: the octet at offset i of s.
Deref(s, i) == s[i + 1]

\* Variant: the length test one short.
TooShortOffByOne(i, end, n) == end - i < n - 1

\* std::distance(octetIterator, iteratorEnd) < numberOfBytes
TooShort(i, end, n) == end - i < n

\* The offsets x the trailing-byte loop visits: 1, 2, ... up to the first
\* x whose octet is no trailing byte (where it throws) or to n-1.
TrailLoop(s, i, n) ==
    { x \in 1..(n - 1) :
        \A y \in 1..(x - 1) : isValidUtf8TrailByte(Deref(s, i + y)) }

\* The switch on numberOfBytes, cases 1 to 6.
Assemble(s, i, n) ==
    CASE n = 1 -> BitAnd(Deref(s, i), 127)
      [] n = 2 -> BitOr(Shl(BitAnd(Deref(s, i), 31), 6),
                        BitAnd(Deref(s, i + 1), 63))
      [] n = 3 -> BitOr(BitOr(Shl(BitAnd(Deref(s, i), 15), 12),
                              Shl(BitAnd(Deref(s, i + 1), 63), 6)),
                        BitAnd(Deref(s, i + 2), 63))
      [] n = 4 -> BitOr(BitOr(BitOr(Shl(BitAnd(Deref(s, i), 7), 18),
                                    Shl(BitAnd(Deref(s, i + 1), 63), 12)),
                              Shl(BitAnd(Deref(s, i + 2), 63), 6)),
                        BitAnd(Deref(s, i + 3), 63))
      [] n = 5 -> BitOr(BitOr(BitOr(BitOr(Shl(BitAnd(Deref(s, i), 3), 24),
                                          Shl(BitAnd(Deref(s, i + 1), 63), 18)),
                                    Shl(BitAnd(Deref(s, i + 2), 63), 12)),
                              Shl(BitAnd(Deref(s, i + 3), 63), 6)),
                        BitAnd(Deref(s, i + 4), 63))
      [] n = 6 -> BitOr(BitOr(BitOr(BitOr(BitOr(
                                          Shl(BitAnd(Deref(s, i), 1), 30),
                                          Shl(BitAnd(Deref(s, i + 1), 63), 24)),
                                          Shl(BitAnd(Deref(s, i + 2), 63), 18)),
                                    Shl(BitAnd(Deref(s, i + 3), 63), 12)),
                              Shl(BitAnd(Deref(s, i + 4), 63), 6)),
                        BitAnd(Deref(s, i + 5), 63))

\* One call getUtf8Character(octetIterator, iteratorEnd) on the string s with
\* the cursor at offset i.  The result records the cursor on entry, the
\* outcome (err), the value returned, the cursor afterwards (next), the
\* sequence length read from the lead byte (n) and the offsets dereferenced
\* (read).  Dereferencing an offset outside s is undefined behaviour.
Outcome(i, e, v, nx, n, rd) ==
    [entry |-> i, err |-> e, value |-> v, next |-> nx, n |-> n, read |-> rd]

\* Variant: the octets validated so far are consumed before the throw.
ThrowAdvanced(i, e, n, rd) == Outcome(i, e, 0, i + Cardinality(rd), n, rd)

\* A throw statement: the cursor has not been incremented yet.
Throw(i, e, n, rd) == Outcome(i, e, 0, i, n, rd)

\* Variants: the octets read without any increment, and the last one read
\* without its increment.
ReturnNotAdvanced(s, i, n) ==
    Outcome(i, NoError, Assemble(s, i, n), i, n, i..(i + n - 1))

ReturnLastNotConsumed(s, i, n) ==
    Outcome(i, NoError, Assemble(s, i, n), i + n - 1, n, i..(i + n - 1))

\* The return after the switch: each of the n octets was read through
\* *octetIterator++.
Return(s, i, n) ==
    Outcome(i, NoError, Assemble(s, i, n), i + n, n, i..(i + n - 1))

\* Same as getUtf8Character, with the trailing bytes that exist checked
\* before the length.
getUtf8CharacterTrailFirst(s, i, end) ==
    IF i >= Len(s) THEN Outcome(i, Undefined, 0, i, 0, {i})
    ELSE
      LET n == getUtf8SequenceLength(Deref(s, i)) IN
      IF \E x \in 1..(n - 1) :
            i + x < Len(s) /\ ~isValidUtf8TrailByte(Deref(s, i + x))
        THEN Throw(i, InvalidTrailByte, n, {i})
      ELSE IF TooShort(i, end, n)
        THEN Throw(i, TruncatedSequence, n, {i})
      ELSE IF n = 0
        THEN Throw(i, InvalidLeadByte, n, {i})
      ELSE Return(s, i, n)

getUtf8Character(s, i, end) ==
    IF i >= Len(s) THEN Outcome(i, Undefined, 0, i, 0, {i})
    ELSE
      LET n == getUtf8SequenceLength(Deref(s, i)) IN
      IF TooShort(i, end, n)
        THEN Throw(i, TruncatedSequence, n, {i})
      ELSE IF i + n > Len(s)
        THEN Outcome(i, Undefined, 0, i, n, i..(i + n - 1))
      ELSE IF \E x \in 1..(n - 1) : ~isValidUtf8TrailByte(Deref(s, i + x))
        THEN Throw(i, InvalidTrailByte, n,
                   {i} \cup { i + x : x \in TrailLoop(s, i, n) })
      ELSE IF n = 0
        THEN Throw(i, InvalidLeadByte, n, {i})
      ELSE Return(s, i, n)

-----------------------------------------------------------------------------
(* Encoder.                                                                *)

\* Variant: the comparison made on the low 31 bits.
U32LessSigned(v, k) == v.low < k

\* value < k, for a constant k <= 2^31
U32Less(v, k) == v.top = 0 /\ v.low < k

\* value >> s, for 1 <= s <= 31
Shr(v, s) == v.top * (2 ^ (31 - s)) + (v.low \div (2 ^ s))

\* value & m, for a mask m < 2^31
U32And(v, m) == BitAnd(v.low, m)

\* Same as put_utf8_char, with the 3-byte lead built from value >> 6.
put_utf8_charShift(c, v) ==
    IF U32Less(v, 128) THEN
        c \o << ToOctet(v.low) >>
    ELSE IF U32Less(v, 2048) THEN
        c \o << ToOctet(BitOr(192, BitAnd(Shr(v, 6), 31))),
                ToOctet(BitOr(128, U32And(v, 63))) >>
    ELSE IF U32Less(v, 65536) THEN
        c \o << ToOctet(BitOr(224, BitAnd(Shr(v, 6), 15))),
                ToOctet(BitOr(128, BitAnd(Shr(v, 6), 63))),
                ToOctet(BitOr(128, U32And(v, 63))) >>
    ELSE IF U32Less(v, 2097152) THEN
        c \o << ToOctet(BitOr(240, BitAnd(Shr(v, 18), 7))),
                ToOctet(BitOr(128, BitAnd(Shr(v, 12), 63))),
                ToOctet(BitOr(128, BitAnd(Shr(v, 6), 63))),
                ToOctet(BitOr(128, U32And(v, 63))) >>
    ELSE IF U32Less(v, 67108864) THEN
        c \o << ToOctet(BitOr(248, BitAnd(Shr(v, 24), 3))),
                ToOctet(BitOr(128, BitAnd(Shr(v, 18), 63))),
                ToOctet(BitOr(128, BitAnd(Shr(v, 12), 63))),
                ToOctet(BitOr(128, BitAnd(Shr(v, 6), 63))),
                ToOctet(BitOr(128, U32And(v, 63))) >>
    ELSE
        c \o << ToOctet(BitOr(252, BitAnd(Shr(v, 30), 1))),
                ToOctet(BitOr(128, BitAnd(Shr(v, 24), 63))),
                ToOctet(BitOr(128, BitAnd(Shr(v, 18), 63))),
                ToOctet(BitOr(128, BitAnd(Shr(v, 12), 63))),
                ToOctet(BitOr(128, BitAnd(Shr(v, 6), 63))),
                ToOctet(BitOr(128, U32And(v, 63))) >>

\* put_utf8_char(octetIterator, value) with octetIterator appending to the
\* container c: the container afterwards.
put_utf8_char(c, v) ==
    IF U32Less(v, 128) THEN
        c \o << ToOctet(v.low) >>
    ELSE IF U32Less(v, 2048) THEN
        c \o << ToOctet(BitOr(192, BitAnd(Shr(v, 6), 31))),
                ToOctet(BitOr(128, U32And(v, 63))) >>
    ELSE IF U32Less(v, 65536) THEN
        c \o << ToOctet(BitOr(224, BitAnd(Shr(v, 12), 15))),
                ToOctet(BitOr(128, BitAnd(Shr(v, 6), 63))),
                ToOctet(BitOr(128, U32And(v, 63))) >>
    ELSE IF U32Less(v, 2097152) THEN
        c \o << ToOctet(BitOr(240, BitAnd(Shr(v, 18), 7))),
                ToOctet(BitOr(128, BitAnd(Shr(v, 12), 63))),
                ToOctet(BitOr(128, BitAnd(Shr(v, 6), 63))),
                ToOctet(BitOr(128, U32And(v, 63))) >>
    ELSE IF U32Less(v, 67108864) THEN
        c \o << ToOctet(BitOr(248, BitAnd(Shr(v, 24), 3))),
                ToOctet(BitOr(128, BitAnd(Shr(v, 18), 63))),
                ToOctet(BitOr(128, BitAnd(Shr(v, 12), 63))),
                ToOctet(BitOr(128, BitAnd(Shr(v, 6), 63))),
                ToOctet(BitOr(128, U32And(v, 63))) >>
    ELSE
        c \o << ToOctet(BitOr(252, BitAnd(Shr(v, 30), 1))),
                ToOctet(BitOr(128, BitAnd(Shr(v, 24), 63))),
                ToOctet(BitOr(128, BitAnd(Shr(v, 18), 63))),
                ToOctet(BitOr(128, BitAnd(Shr(v, 12), 63))),
                ToOctet(BitOr(128, BitAnd(Shr(v, 6), 63))),
                ToOctet(BitOr(128, U32And(v, 63))) >>

appendUtf8(container, cp) == put_utf8_char(container, cp)

-----------------------------------------------------------------------------
(* Stream conversions.                                                     *)

\* static_cast<wchar_t>(uint32_t) for a value below 2^31 (all the decoder
\* returns): kept by a wchar_t of 32 bits, reduced to its low bits by a
\* narrower one.
\* Variant: the cast made to char.
ToWCharLowByte(v, bits) == v % 256

ToWChar(v, bits) == IF bits >= 31 THEN v ELSE v % (2 ^ bits)

\* static_cast<uint32_t>(wchar_t) for a non-negative wchar_t.
U32OfWChar(ch) == [top |-> 0, low |-> ch]

\* Variant: the characters appended last to first.
RECURSIVE convertWStringToUtf8Reversed(_, _)
convertWStringToUtf8Reversed(s, wstr) ==
    IF wstr = << >> THEN s
    ELSE appendUtf8(convertWStringToUtf8Reversed(s, Tail(wstr)),
                    [top |-> 0, low |-> Head(wstr)])

\* convertWStringToUtf8's loop: the string s so far, the characters left.
RECURSIVE convertWStringToUtf8From(_, _)
convertWStringToUtf8From(s, wstr) ==
    IF wstr = << >> THEN s
    ELSE convertWStringToUtf8From(appendUtf8(s, U32OfWChar(Head(wstr))),
                                  Tail(wstr))

convertWStringToUtf8(wstr) == convertWStringToUtf8From(<< >>, wstr)

-----------------------------------------------------------------------------
(* Inputs.                                                                 *)

MaxLen  == 5    \* decoder inputs: every string over ByteSamples up to here
MaxTail == 5    \* ... and 5- and 6-byte leads with up to this many followers
Near    == 2    \* encoder inputs: this close around every length boundary
SmallMax == 2100 \* ... and every code point up to here

Octets == 0..255

\* One octet of each kind the decoder tells apart: ASCII 0x20, the trailing
\* byte 0x82 (no lead byte either) and the leads 0xC2, 0xE2, 0xF0, 0xF8, 0xFD.
ByteSamples == {32, 130, 194, 226, 240, 248, 253}

\* Followers of a long lead: trailing bytes 0x80, 0xBF and the ASCII 0x20.
TailSamples == {128, 191, 32}

SeqsUpTo(S, lo, hi) == UNION { [1..k -> S] : k \in lo..hi }

LongInputs ==
    { << l >> \o t : l \in {248, 251, 252, 253}, t \in SeqsUpTo(TailSamples, 4, MaxTail) }

\* "A euro", U+10348, overlong NUL, the surrogate D800, the first value past
\* 0x10FFFF, leads with every payload bit set, and the octets 0xFE and 0xFF
\* as lead and as follower.
NamedInputs ==
    { << 65, 226, 130, 172 >>, << 240, 144, 141, 136 >>, << 194, 32 >>,
      << 192, 128 >>, << 237, 160, 128 >>, << 244, 144, 128, 128 >>,
      << 65, 194 >>, << 226, 130, 32 >>, << 223, 191 >>, << 239, 191, 191 >>,
      << 247, 191, 191, 191 >>, << 127 >>, << 254 >>, << 255 >>,
      << 32, 194, 130, 255 >>, << 194, 255 >>, << 226, 130, 254 >>,
      << 255, 130 >> }

DecoderInputs == SeqsUpTo(ByteSamples, 0, MaxLen) \cup LongInputs \cup NamedInputs

Boundaries == {128, 2048, 65536, 2097152, 67108864}

LowSamples ==
    (0..SmallMax)
    \cup { b + d : b \in Boundaries, d \in (0 - Near)..Near }
    \cup { 8364, 55296, 66376, 1114111, 1114112, 1073741823, 1073741824,
           1431655765, 715827882, 2147483647 }

\* The uint32_t values given to the encoder: bit 31 clear or set.
CodePoints == [top : {0, 1}, low : LowSamples]

\* Widths of wchar_t: 16 bits (Windows ABIs) and 32 bits (the others).
WCharWidths == {16, 32}

-----------------------------------------------------------------------------
(* The callers.                                                            *)

NoResult   == << "none" >>
NoCall     == Outcome(0, "not called", 0, 0, 0, {})
NoSeqLength == [len |-> 0 - 1, lead |-> FALSE, trail |-> FALSE]
NoCodePoint == [top |-> 0, low |-> 0]

\* A caller about to classify one octet.
InitClassify ==
    /\ pc = "classify"
    /\ byte \in Octets
    /\ seqLength = NoSeqLength /\ codePoint = NoCodePoint
    /\ str = << >> /\ it = 0 /\ output = << >> /\ result = NoResult
    /\ last = NoCall /\ reads = {} /\ calls = 0 /\ wcharBits = 32
    /\ utf8 = << >>

\* A caller about to encode one code point into an empty container.
InitEncode ==
    /\ pc = "put"
    /\ codePoint \in CodePoints
    /\ byte = 0 /\ seqLength = NoSeqLength
    /\ str = << >> /\ it = 0 /\ output = << >> /\ result = NoResult
    /\ last = NoCall /\ reads = {} /\ calls = 0 /\ wcharBits = 32
    /\ utf8 = << >>

\* convertUtf8ToWString(str) entered: output empty, it = str.begin().
InitDecode ==
    /\ pc = "loop"
    /\ str \in DecoderInputs
    /\ wcharBits \in WCharWidths
    /\ byte = 0 /\ seqLength = NoSeqLength /\ codePoint = NoCodePoint
    /\ it = 0 /\ output = << >> /\ result = NoResult
    /\ last = NoCall /\ reads = {} /\ calls = 0
    /\ utf8 = << >>

Init == InitClassify \/ InitEncode \/ InitDecode

\* getUtf8SequenceLength, isValidUtf8LeadByte and isValidUtf8TrailByte
\* applied to `byte`.
Classify ==
    /\ pc = "classify"
    /\ seqLength' = [len   |-> getUtf8SequenceLength(byte),
                     lead  |-> isValidUtf8LeadByte(byte),
                     trail |-> isValidUtf8TrailByte(byte)]
    /\ pc' = "classified"
    /\ UNCHANGED <<byte, codePoint, str, it, output, result, last, reads,
                   calls, wcharBits, utf8>>

\* appendUtf8(str, codePoint)
PutChar ==
    /\ pc = "put"
    /\ str' = appendUtf8(str, codePoint)
    /\ pc' = "get"
    /\ UNCHANGED <<byte, seqLength, codePoint, it, output, result, last,
                   reads, calls, wcharBits, utf8>>

\* getUtf8Character(it, str.end()) with it = str.begin(), on the bytes just
\* written; the outcome, an exception included, is kept in `last`.
GetChar ==
    /\ pc = "get"
    /\ LET r == getUtf8Character(str, it, Len(str)) IN
        /\ last' = r
        /\ it' = r.next
        /\ reads' = reads \cup r.read
        /\ pc' = "got"
    /\ calls' = calls + 1
    /\ UNCHANGED <<byte, seqLength, codePoint, str, output, result,
                   wcharBits, utf8>>

\* One iteration of convertUtf8ToWString's loop: the test it != str.end()
\* passed, getUtf8Character is called and its value appended to output.  An
\* exception leaves the function: its local `output` is destroyed and
\* nothing is returned.
DecodeStep ==
    /\ pc = "loop"
    /\ it # Len(str)
    /\ LET r == getUtf8Character(str, it, Len(str)) IN
        /\ last' = r
        /\ it' = r.next
        /\ reads' = reads \cup r.read
        /\ output' = IF r.err = NoError
                     THEN Append(output, ToWChar(r.value, wcharBits))
                     ELSE << >>
        /\ pc' = IF r.err = NoError THEN "loop"
                 ELSE IF r.err = Undefined THEN "undefined" ELSE "thrown"
    /\ calls' = calls + 1
    /\ UNCHANGED <<byte, seqLength, codePoint, str, result, wcharBits, utf8>>

\* The loop test fails (it == str.end()): return output.
DecodeReturn ==
    /\ pc = "loop"
    /\ it = Len(str)
    /\ result' = output
    /\ pc' = "returned"
    /\ UNCHANGED <<byte, seqLength, codePoint, str, it, output, last, reads,
                   calls, wcharBits, utf8>>

\* convertWStringToUtf8 on the wide string just returned.
EncodeBack ==
    /\ pc = "returned"
    /\ utf8' = convertWStringToUtf8(result)
    /\ pc' = "encoded"
    /\ UNCHANGED <<byte, seqLength, codePoint, str, it, output, result, last,
                   reads, calls, wcharBits>>

Next == Classify \/ PutChar \/ GetChar \/ DecodeStep \/ DecodeReturn \/ EncodeBack

Spec == Init /\ [][Next]_vars

-----------------------------------------------------------------------------
(* Reference definitions, stated with ranges and arithmetic rather than    *)
(* with the masks and shifts of the code.                                  *)

\* The length a lead byte declares, by value range.
RefLength(b) ==
    IF b \in 0..127 THEN 1
    ELSE IF b \in 192..223 THEN 2
    ELSE IF b \in 224..239 THEN 3
    ELSE IF b \in 240..247 THEN 4
    ELSE IF b \in 248..251 THEN 5
    ELSE IF b \in 252..253 THEN 6
    ELSE 0

RefIsTrail(b) == b \in 128..191

\* Number of payload values of a lead byte of an n-byte sequence.
RefLeadRange(n) == IF n = 1 THEN 128 ELSE 2 ^ (7 - n)

RECURSIVE RefTrailSum(_, _, _, _)
RefTrailSum(s, i, n, k) ==
    IF k >= n THEN 0
    ELSE (s[i + k + 1] % 64) * (64 ^ (n - 1 - k)) + RefTrailSum(s, i, n, k + 1)

\* The code point of the n-byte sequence at offset i.
RefValue(s, i, n) ==
    (s[i + 1] % RefLeadRange(n)) * (64 ^ (n - 1)) + RefTrailSum(s, i, n, 1)

\* The outcome of decoding at offset i < Len(s), in the order of the checks.
RefOutcome(s, i) ==
    LET n == RefLength(s[i + 1]) IN
    IF Len(s) - i < n THEN TruncatedSequence
    ELSE IF \E k \in 1..(n - 1) : ~RefIsTrail(s[i + k + 1]) THEN InvalidTrailByte
    ELSE IF n = 0 THEN InvalidLeadByte
    ELSE NoError

\* The code points of the consecutive sequences of s from offset i on, or
\* the error of the first sequence that is rejected.
RECURSIVE RefDecodeFrom(_, _, _)
RefDecodeFrom(s, i, acc) ==
    IF i >= Len(s) THEN [err |-> NoError, cps |-> acc]
    ELSE IF RefOutcome(s, i) # NoError THEN [err |-> RefOutcome(s, i), cps |-> << >>]
    ELSE RefDecodeFrom(s, i + RefLength(s[i + 1]),
                       Append(acc, RefValue(s, i, RefLength(s[i + 1]))))

RefDecodeAll(s) == RefDecodeFrom(s, 0, << >>)

\* The length of the encoding of a 32-bit value, by value range.
RefEncodedLength(v) ==
    IF v.top = 1 THEN 6
    ELSE IF v.low < 128 THEN 1
    ELSE IF v.low < 2048 THEN 2
    ELSE IF v.low < 65536 THEN 3
    ELSE IF v.low < 2097152 THEN 4
    ELSE IF v.low < 67108864 THEN 5
    ELSE 6

\* Every sequence of s is the shortest one for its code point.
RECURSIVE RefShortestFrom(_, _)
RefShortestFrom(s, i) ==
    IF i >= Len(s) THEN TRUE
    ELSE LET n == RefLength(s[i + 1]) IN
         /\ RefOutcome(s, i) = NoError
         /\ RefEncodedLength([top |-> 0, low |-> RefValue(s, i, n)]) = n
         /\ RefShortestFrom(s, i + n)

\* The code points a wchar_t of the given width holds unchanged.
FitsWChar(v, bits) == bits >= 31 \/ v < 2 ^ bits

Failures == {TruncatedSequence, InvalidTrailByte, InvalidLeadByte}

-----------------------------------------------------------------------------
(* Claims.                                                                 *)

\* C1: a code point below 2^31 encoded by put_utf8_char into an empty buffer
\* and decoded by getUtf8Character from the start of that buffer comes back
\* unchanged, without error, with the cursor at the end of the buffer.
C1_RoundTrip ==
    (pc = "got" /\ codePoint.top = 0) =>
        /\ last.entry = 0
        /\ last.err = NoError
        /\ last.value = codePoint.low
        /\ it = Len(str)

C1_Witness ==
    /\ pc = "got" /\ codePoint = [top |-> 0, low |-> 2147483647]
    /\ Len(str) = 6 /\ last.value = 2147483647 /\ it = 6

\* C2 as claimed: whenever decodeAll succeeds on b, encoding the decoded
\* code points gives b back byte for byte.
C2_Original == pc = "encoded" => utf8 = str

\* C2 amended: encoding the decoded code points gives b back when, besides,
\* every sequence of b is the shortest one for its code point and every code
\* point fits wchar_t.
C2_ShortestFormRoundTrip ==
    (/\ pc = "encoded"
     /\ RefShortestFrom(str, 0)
     /\ \A k \in 1..Len(RefDecodeAll(str).cps) :
            FitsWChar(RefDecodeAll(str).cps[k], wcharBits))
        => utf8 = str

C2_Witness ==
    /\ pc = "encoded" /\ str = << 65, 226, 130, 172 >> /\ utf8 = str
    /\ result = << 65, 8364 >>

\* C3: with at least one byte available and n the length the first byte
\* declares, a decode fails as truncated if fewer than n bytes remain, else
\* on a bad trailing byte if one of the n-1 followers is not 10xxxxxx, else
\* on the lead byte if n = 0, and succeeds otherwise.
C3_CheckOrder ==
    (calls > 0 /\ last.entry < Len(str)) =>
        /\ last.err = RefOutcome(str, last.entry)
        /\ (str = << 194 >> => last.err = TruncatedSequence)
        /\ (str = << 194, 32 >> => last.err = InvalidTrailByte)
        /\ (str = << 255 >> => last.err = InvalidLeadByte)

C3_Witness ==
    /\ pc = "thrown" /\ str = << 226, 32 >> /\ last.entry = 0
    /\ last.err = TruncatedSequence

C5_EncodedForm ==
    pc = "get" =>
        LET L == RefEncodedLength(codePoint) IN
        /\ Len(str) = L
        /\ getUtf8SequenceLength(str[1]) = L
        /\ \A k \in 2..L :
            /\ str[k] \in 128..191
            /\ str[k] - 128 = (codePoint.low \div (64 ^ (L - k))) % 64
        /\ (codePoint = [top |-> 0, low |-> 127] => str = << 127 >>)
        /\ (codePoint = [top |-> 0, low |-> 128] => str = << 194, 128 >>)
        /\ (codePoint = [top |-> 0, low |-> 66376]
                => str = << 240, 144, 141, 136 >>)

C5_Witness ==
    /\ pc = "get" /\ codePoint = [top |-> 1, low |-> 66376]
    /\ str = << 252, 128, 128, 144, 141, 136 >>

\* C6: a successful decode of a sequence of declared length n moves the
\* cursor n bytes on and returns the lead byte's payload times 64^(n-1) plus
\* each follower's low 6 bits at its place; every sequence with a valid lead,
\* n bytes and 10xxxxxx followers succeeds.
C6_DecodedValue ==
    (calls > 0 /\ last.entry < Len(str)) =>
        LET i == last.entry
            n == RefLength(str[i + 1])
        IN  /\ last.err = NoError =>
                /\ n \in 1..6
                /\ it = i + n
                /\ last.value = RefValue(str, i, n)
            /\ (/\ n \in 1..6
                /\ i + n <= Len(str)
                /\ \A k \in 1..(n - 1) : RefIsTrail(str[i + k + 1]))
                    => last.err = NoError

C6_Witness ==
    /\ str = << 244, 144, 128, 128 >> /\ last.err = NoError
    /\ last.value = 1114112 /\ it = 4

\* C7 as claimed: decodeAll returns the code points of the consecutive
\* sequences in order, or fails with the first rejected sequence's error and
\* returns nothing.
C7_Original ==
    /\ pc = "returned" =>
        /\ RefDecodeAll(str).err = NoError
        /\ result = RefDecodeAll(str).cps
    /\ pc = "thrown" =>
        /\ last.err = RefDecodeAll(str).err
        /\ result = NoResult

\* C7 amended: each returned element is the sequence's code point converted
\* to wchar_t, which is the code point itself where it fits.
C7_DecodeAll ==
    /\ pc = "returned" =>
        /\ RefDecodeAll(str).err = NoError
        /\ Len(result) = Len(RefDecodeAll(str).cps)
        /\ \A k \in 1..Len(result) :
            LET cp == RefDecodeAll(str).cps[k] IN
            result[k] = IF FitsWChar(cp, wcharBits) THEN cp
                        ELSE cp % (2 ^ wcharBits)
        /\ (str = << 65, 226, 130, 172 >> => result = << 65, 8364 >>)
    /\ pc = "thrown" =>
        /\ last.err \in Failures
        /\ last.err = RefDecodeAll(str).err
        /\ result = NoResult
        /\ output = << >>

C7_Witness ==
    /\ pc = "thrown" /\ str = << 32, 194, 130, 255 >>
    /\ last.err = InvalidLeadByte /\ calls = 3 /\ result = NoResult

\* C8: a decode that fails leaves the cursor where it was on entry.
C8_FailureKeepsCursor == [][pc' = "thrown" => it' = it]_vars

C8_Witness ==
    /\ pc = "thrown" /\ last.err = InvalidTrailByte /\ last.entry = 2
    /\ it = 2 /\ calls = 2

\* C9: no offset at or past the end is dereferenced, and the cursor never
\* passes the end.
C9_NoReadPastEnd ==
    /\ \A r \in reads : r < Len(str)
    /\ it <= Len(str)
    /\ pc # "undefined"
    /\ last.err # Undefined

C9_Witness ==
    /\ pc = "thrown" /\ last.err = TruncatedSequence
    /\ Len(str) = 4 /\ last.entry = 3 /\ reads = 0..3

\* C10: the loop of decodeAll makes at most Len(str) decode calls: while it
\* runs, every call so far moved the cursor at least one byte on, and the
\* cursor is bounded by the end.
C10_BoundedCalls ==
    /\ calls <= Len(str)
    /\ it <= Len(str)
    /\ pc = "loop" => calls <= it

C10_Witness ==
    /\ pc = "returned" /\ calls = Len(str) /\ Len(str) = MaxLen

====
